---- MODULE Spec2Model ----
(***************************************************************************)
(* Model of src/src/sortmerna/paralleltraversal.cpp (SortMeRNA).           *)
(*                                                                         *)
(*  Spec         the per-read driver parallelTraversalJob, run step by     *)
(*               step on one Read over a sequence of invocations           *)
(*               (index, part, strand); the chainer compute_lis_alignment  *)
(*               and the trie search traversetrie_align are collaborators  *)
(*               whose code is elsewhere: they are modelled from the       *)
(*               specification as nondeterministic choices.                *)
(*  HarnessSpec  the pipeline of paralleltraversal(): the main thread, the *)
(*               thread pool, Reader / Processor / Writer jobs and the two *)
(*               queues.                                                   *)
(***************************************************************************)
EXTENDS Integers, Sequences, FiniteSets, TLC

\* ------------------------------------------------------------------ bounds
MaxReadLen == 4
MaxCalls == 2
NumIndexes == 2
NumParts == 1
MaxPartialwin == 2
MaxNumAlignments == 2
MaxSWScore == 1
\* read formatting: bytes of a read before its terminator
MaxSeqLen == 3
\* harness
MaxReaders == 2
MaxProcs == 2
NumReads == 2
QUEUE_SIZE_MAX == 1
\* readers + processors + iterations of one run
MaxPipeline == 4

Indexes == 0 .. NumIndexes - 1
Parts == 0 .. NumParts - 1

\* stride triples opts.skiplengths[index_num][0..2] the driver is run with
SkipTriples == { <<4, 2, 1>>, <<2, 1, 1>>, <<2, 2, 1>>, <<1, 1, 1>> }

\* what a read one past the three strides, skiplengths[index_num][3], may yield
OobValues == {0, 1, 2}

VARIABLES
  \* ---- driver (Spec)
  gv,              \* num_alignments_gv, num_best_hits_gv, min_lis_gv, de_novo_otu_gv
  opts,            \* index.opts: forward, skiplengths
  index,           \* index_num, part, lnwin
  read,            \* the Read the driver mutates
  readstats,       \* Readstats
  pc,              \* position of the driver
  windowshift, pass_n, search, numwin, win_num, win_index,
  read_index_hits, \* vector<bool>: the offsets already probed
  calls,           \* invocations started so far
  exit,            \* how the last invocation returned
  probes,          \* <<pass_n, win_index>> of every probe of this invocation
  lisCalls,        \* per executed pass, the number of windows done before the chainer ran
  skipReads,       \* the i of every skiplengths[index_num][i] read in this invocation
  \* ---- harness (HarnessSpec); opts, index and readstats are shared with the driver
  mainPc,          \* position of paralleltraversal() on the main thread
  mloop,           \* its loop variables: index_num, idx_part, i, loopCount
  tpool,           \* ThreadPool: the jobs waiting, the jobs running, the jobs finished
  readQueue,       \* ReadsQueue "read_queue"
  writeQueue,      \* ReadsQueue "write_queue"
  kvdb,            \* KeyValueDatabase: read ordinal -> the alignments stored for it
  hist,            \* what happened: reads pushed, reads processed, lengths counted
  logCount,        \* calls of writeLog
  \* ---- read formatting (FormatSpec)
  filesig,         \* first byte of the reads file: '>' for FASTA, else FASTQ
  read_seq,        \* the bytes read_seq points at, up to and with the terminator
  myread,          \* the bytes format_forward has written through myread
  fpc,             \* whether format_forward has run
  myread_rc,       \* the bytes format_rev has written through its myread
  rpc              \* whether format_rev has run

dvars == << gv, opts, index, read, readstats, pc, windowshift, pass_n, search,
            numwin, win_num, win_index, read_index_hits, calls, exit, probes, lisCalls,
            skipReads >>

hvars == << mainPc, mloop, tpool, readQueue, writeQueue, kvdb, hist, logCount >>

fvars == << filesig, read_seq, myread, fpc, myread_rc, rpc >>

vars == << dvars, hvars, fvars >>

\* ------------------------------------------------------- pure parts of the driver

\* early-termination rules that consult the best-hit rule in every configuration
EarlyTermination_besthit(rd, fwd, g) ==
  /\ ~fwd
  /\ \/ g.num_alignments_gv > 0 /\ rd.num_alignments < 0
     \/ /\ g.num_best_hits_gv > 0
        /\ g.min_lis_gv > 0
        /\ rd.max_SW_score = g.num_best_hits_gv

\* lines 155-167: the reverse-strand early-termination rules
EarlyTermination(rd, fwd, g) ==
  /\ ~fwd
  /\ IF g.num_alignments_gv > 0
       THEN rd.num_alignments < 0
       ELSE /\ g.num_best_hits_gv > 0
            /\ g.min_lis_gv > 0
            /\ rd.max_SW_score = g.num_best_hits_gv

\* a minimum that is never updated
UpdMin_keep(cur, len) == cur

\* lines 172-173
UpdMin(cur, len) == IF len < cur THEN len ELSE cur
\* lines 175-176
UpdMax(cur, len) == IF len > cur THEN len ELSE cur

\* a length check that lets a read one short of the window through
TooShort_off(len, lnw) == len < lnw - 1

\* line 179
TooShort(len, lnw) == len < lnw

\* a window count that drops the window ending at the end of the read
NumWin_floor(len, lnw, ws) == (len - lnw) \div ws

\* a window count that forgets the length of the window
NumWin_nolnwin(len, lnw, ws) == (len + ws) \div ws

\* lines 211-213; uint32_t arithmetic, exact on the integers here: the length
\* check of line 179 keeps len - lnw from wrapping
NumWin(len, lnw, ws) == (len - lnw + ws) \div ws

\* skiplengths[index_num][i]; i = 3 is one past the end of the three strides
SkipAt(sk, i, oob) == IF i < 3 THEN sk[i + 1] ELSE oob

\* a pass schedule that never skips a pass of the same stride
SkipEqual_none(p, sk, oob) == p

\* lines 357-358: the while loop skipping equal strides
RECURSIVE SkipEqual(_, _, _)
SkipEqual(p, sk, oob) ==
  IF p < 3 /\ SkipAt(sk, p, oob) = SkipAt(sk, p + 1, oob)
    THEN SkipEqual(p + 1, sk, oob)
    ELSE p

\* a pass schedule that does not look at the flag the chainer returned
NextPass_noflag(srch, p, ws, sk, oob) ==
  IF p = 2 THEN [search |-> FALSE, pass_n |-> p, windowshift |-> ws]
  ELSE LET q == SkipEqual(p, sk, oob) + 1 IN
       IF q > 2 THEN [search |-> FALSE, pass_n |-> q, windowshift |-> ws]
       ELSE [search |-> TRUE, pass_n |-> q, windowshift |-> SkipAt(sk, q, oob)]

\* lines 357-358: the i of the skiplengths[index_num][i] the while loop reads
RECURSIVE WhileReads(_, _, _)
WhileReads(p, sk, oob) ==
  IF p < 3
    THEN {p, p + 1} \cup (IF SkipAt(sk, p, oob) = SkipAt(sk, p + 1, oob)
                            THEN WhileReads(p + 1, sk, oob) ELSE {})
    ELSE {}

\* lines 350-361: the i of the skiplengths[index_num][i] read after the chainer
SkipIndexesRead(srch, p, sk, oob) ==
  IF ~srch \/ p = 2 THEN {}
  ELSE WhileReads(p, sk, oob)
         \cup (IF SkipEqual(p, sk, oob) + 1 > 2 THEN {} ELSE {SkipEqual(p, sk, oob) + 1})

\* lines 350-363: what follows the chainer at the last window of a pass
NextPass(srch, p, ws, sk, oob) ==
  IF ~srch THEN [search |-> FALSE, pass_n |-> p, windowshift |-> ws]
  ELSE IF p = 2 THEN [search |-> FALSE, pass_n |-> p, windowshift |-> ws]
  ELSE LET q == SkipEqual(p, sk, oob) + 1 IN
       IF q > 2 THEN [search |-> FALSE, pass_n |-> q, windowshift |-> ws]
       ELSE [search |-> TRUE, pass_n |-> q, windowshift |-> SkipAt(sk, q, oob)]

\* a bitset test that never finds an offset searched
AlreadySearched_never(hits, w) == FALSE

\* line 220: read_index_hits[win_index]
AlreadySearched(hits, w) == w \in hits

\* a last-window test that holds at the first window of a pass
LastWindow_first(wn, nw) == wn = 0

\* line 339
LastWindow(wn, nw) == wn = nw - 1

\* a return that leaves hit_denovo alone
PostDenovo_noflip(rd, fwd, g) == rd

\* lines 373-378
PostDenovo(rd, fwd, g) ==
  IF ~rd.hit /\ ~fwd /\ g.num_alignments_gv > -1 /\ g.de_novo_otu_gv /\ rd.hit_denovo
    THEN [rd EXCEPT !.hit_denovo = ~rd.hit_denovo]
    ELSE rd

\* lines 380-381
PostCount(rs, rd, g) ==
  IF g.de_novo_otu_gv /\ rd.hit_denovo
    THEN [rs EXCEPT !.total_reads_denovo_clustering = @ + 1]
    ELSE rs

\* ----------------------------------------------- collaborators (from the spec)

\* traversetrie_align: the hits of one window, each (ref_id, win_index)
id_hits_of(w) == { << >>, << [ref |-> 0, win |-> w] >> }

\* compute_lis_alignment: the outcomes of one call, as (read, search) pairs.
\* An alignment is accepted only from seed hits; with num_alignments configured
\* at most that many are emitted and done is signalled when the limit is
\* reached; under the best-hit rule done is signalled once enough best hits are
\* found; otherwise the search goes through all passes.
compute_lis_alignment(rd, g, idx) ==
  LET limited == g.num_alignments_gv > 0
      besthit == ~limited /\ g.num_best_hits_gv > 0 /\ g.min_lis_gv > 0
      none == [read |-> rd,
               search |-> ~(limited /\ rd.num_alignments <= 0)]
      canAccept == rd.id_win_hits # << >> /\ (limited => rd.num_alignments > 0)
      accepted(score, srch) ==
        [read |-> [rd EXCEPT
                     !.hit = TRUE,
                     !.alignments = Append(@, [index_num |-> idx.index_num,
                                                part |-> idx.part]),
                     !.num_alignments = IF limited THEN @ - 1 ELSE @,
                     !.max_SW_score = IF score > @ THEN score ELSE @],
         search |-> srch]
  IN {none} \cup
     (IF ~canAccept THEN {}
      ELSE IF limited
        THEN { accepted(s, rd.num_alignments - 1 > 0) : s \in 1 .. MaxSWScore }
      ELSE IF besthit
        THEN { accepted(s, b) : s \in 1 .. MaxSWScore, b \in BOOLEAN }
      ELSE { accepted(s, TRUE) : s \in 1 .. MaxSWScore })

\* a Read as the Reader hands it over
NewRead(len, g) ==
  [ len |-> len, isValid |-> TRUE, hit |-> FALSE, hit_denovo |-> TRUE,
    num_alignments |-> g.num_alignments_gv, max_SW_score |-> 0,
    lastIndex |-> 0, lastPart |-> 0,
    id_win_hits |-> << >>, readhit |-> 0, alignments |-> << >> ]

NewReadstats ==
  [ min_read_len |-> MaxReadLen + 1, max_read_len |-> 0,
    total_reads_denovo_clustering |-> 0 ]

Lnwin == index.lnwin[index.index_num]
Skip == opts.skiplengths[index.index_num]

\* the formatting variables, where no formatting function is run
FormatIdle ==
  /\ filesig = 0
  /\ read_seq = << >>
  /\ myread = << >>
  /\ fpc = "none"
  /\ myread_rc = << >>
  /\ rpc = "none"

\* the harness variables, where only the driver is run
HarnessIdle ==
  /\ mainPc = "none"
  /\ mloop = << >>
  /\ tpool = << >>
  /\ readQueue = << >>
  /\ writeQueue = << >>
  /\ kvdb = << >>
  /\ hist = << >>
  /\ logCount = 0

\* --------------------------------------------------------------- driver: Init

Init ==
  /\ gv \in [ num_alignments_gv : -1 .. MaxNumAlignments,
              num_best_hits_gv : 0 .. 1,
              min_lis_gv : 0 .. 1,
              de_novo_otu_gv : BOOLEAN ]
  /\ \E sk \in SkipTriples :
       opts = [forward |-> TRUE, skiplengths |-> [i \in Indexes |-> sk]]
  /\ \E pw \in [Indexes -> 1 .. MaxPartialwin] :
       index = [index_num |-> 0, part |-> 0, lnwin |-> [i \in Indexes |-> 2 * pw[i]]]
  /\ \E len \in 1 .. MaxReadLen : read = NewRead(len, gv)
  /\ readstats = NewReadstats
  /\ pc = "idle"
  /\ windowshift = 0 /\ pass_n = 0 /\ search = FALSE
  /\ numwin = 0 /\ win_num = 0 /\ win_index = 0
  /\ read_index_hits = {}
  /\ calls = 0
  /\ exit = "none"
  /\ probes = << >>
  /\ lisCalls = << >>
  /\ skipReads = {}
  /\ HarnessIdle
  /\ FormatIdle

\* ------------------------------------------------------------ driver: actions

\* lines 149-167: the Processor calls the driver on the read; index.index_num,
\* index.part and opts.forward are those of the call
Enter(i, p, fwd) ==
  /\ pc = "idle"
  /\ calls < MaxCalls
  /\ calls' = calls + 1
  /\ index' = [index EXCEPT !.index_num = i, !.part = p]
  /\ opts' = [opts EXCEPT !.forward = fwd]
  /\ read' = [read EXCEPT !.lastIndex = i, !.lastPart = p]
  /\ probes' = << >>
  /\ lisCalls' = << >>
  /\ skipReads' = {}
  /\ IF EarlyTermination(read, fwd, gv)
       THEN pc' = "idle" /\ exit' = "early"
       ELSE pc' = "stats" /\ exit' = "none"
  /\ UNCHANGED << hvars, fvars >>
  /\ UNCHANGED << gv, readstats, windowshift, pass_n, search, numwin, win_num,
                  win_index, read_index_hits >>

\* lines 169-206: statistics, the length check, the locals of the pass loop
Stats ==
  /\ pc = "stats"
  /\ readstats' = [readstats EXCEPT
                     !.min_read_len = UpdMin(@, read.len),
                     !.max_read_len = UpdMax(@, read.len)]
  /\ IF TooShort(read.len, Lnwin)
       THEN /\ read' = [read EXCEPT !.isValid = FALSE]
            /\ pc' = "idle" /\ exit' = "short"
            /\ UNCHANGED << windowshift, pass_n, search, read_index_hits, skipReads >>
       ELSE /\ windowshift' = SkipAt(Skip, 0, 0)
            /\ skipReads' = {0}
            /\ read_index_hits' = {}
            /\ pass_n' = 0
            /\ search' = TRUE
            /\ pc' = "pass"
            /\ UNCHANGED << read, exit >>
  /\ UNCHANGED << hvars, fvars >>
  /\ UNCHANGED << gv, opts, index, numwin, win_num, win_index, calls, probes, lisCalls >>

\* lines 209-217: the loop test of a pass, numwin, the first window
PassStart ==
  /\ pc = "pass"
  /\ search
  /\ numwin' = NumWin(read.len, Lnwin, windowshift)
  /\ win_index' = 0
  /\ win_num' = 0
  /\ pc' = IF 0 < NumWin(read.len, Lnwin, windowshift) THEN "window" ELSE "pass"
  /\ UNCHANGED << hvars, fvars >>
  /\ UNCHANGED << gv, opts, index, read, readstats, windowshift, pass_n, search,
                  read_index_hits, calls, exit, probes, lisCalls,
                  skipReads >>

\* line 220: the offset was probed in an earlier pass
WindowSkip ==
  /\ pc = "window"
  /\ AlreadySearched(read_index_hits, win_index)
  /\ pc' = "check_score"
  /\ UNCHANGED << hvars, fvars >>
  /\ UNCHANGED << gv, opts, index, read, readstats, windowshift, pass_n, search,
                  numwin, win_num, win_index, read_index_hits, calls, exit,
                  probes, lisCalls,
                  skipReads >>

\* lines 222-335: mark the offset, search both tries, append the hits
WindowProbe ==
  /\ pc = "window"
  /\ ~AlreadySearched(read_index_hits, win_index)
  /\ read_index_hits' = read_index_hits \cup {win_index}
  /\ \E id_hits \in id_hits_of(win_index) :
       read' = IF id_hits # << >>
                 THEN [read EXCEPT !.id_win_hits = @ \o id_hits, !.readhit = @ + 1]
                 ELSE read
  /\ probes' = Append(probes, << pass_n, win_index >>)
  /\ pc' = "check_score"
  /\ UNCHANGED << hvars, fvars >>
  /\ UNCHANGED << gv, opts, index, readstats, windowshift, pass_n, search, numwin,
                  win_num, win_index, calls, exit, lisCalls,
                  skipReads >>

\* lines 337-367, not the last window: slide the window
CheckScoreNext ==
  /\ pc = "check_score"
  /\ ~LastWindow(win_num, numwin)
  /\ win_index' = win_index + windowshift
  /\ win_num' = win_num + 1
  /\ pc' = IF win_num + 1 < numwin THEN "window" ELSE "pass"
  /\ UNCHANGED << hvars, fvars >>
  /\ UNCHANGED << gv, opts, index, read, readstats, windowshift, pass_n, search,
                  numwin, read_index_hits, calls, exit, probes, lisCalls,
                  skipReads >>

\* lines 339-346, the last window of the pass: the chainer runs on the read
\* and on the search flag it is handed by reference
CheckScoreLast ==
  /\ pc = "check_score"
  /\ LastWindow(win_num, numwin)
  /\ \E out \in compute_lis_alignment(read, gv, index) :
       /\ read' = out.read
       /\ search' = out.search
  /\ lisCalls' = Append(lisCalls, win_num + 1)
  /\ pc' = "advance"
  /\ UNCHANGED << hvars, fvars >>
  /\ UNCHANGED << gv, opts, index, readstats, windowshift, pass_n, numwin, win_num,
                  win_index, read_index_hits, calls, exit, probes,
                  skipReads >>

\* lines 348-365: the stride of the next pass, or the end of the search; break
PassAdvance ==
  /\ pc = "advance"
  /\ \E oob \in OobValues :
       LET np == NextPass(search, pass_n, windowshift, Skip, oob) IN
       /\ search' = np.search
       /\ pass_n' = np.pass_n
       /\ windowshift' = np.windowshift
       /\ skipReads' = skipReads \cup SkipIndexesRead(search, pass_n, Skip, oob)
  /\ pc' = "pass"
  /\ UNCHANGED << hvars, fvars >>
  /\ UNCHANGED << gv, opts, index, read, readstats, numwin, win_num, win_index,
                  read_index_hits, calls, exit, probes, lisCalls >>

\* lines 369-382: the pass loop is over; the locals die with the return
Post ==
  /\ pc = "pass"
  /\ ~search
  /\ read' = PostDenovo(read, opts.forward, gv)
  /\ readstats' = PostCount(readstats, PostDenovo(read, opts.forward, gv), gv)
  /\ pc' = "idle"
  /\ exit' = "done"
  /\ windowshift' = 0 /\ pass_n' = 0 /\ search' = FALSE
  /\ numwin' = 0 /\ win_num' = 0 /\ win_index' = 0
  /\ read_index_hits' = {}
  /\ UNCHANGED << hvars, fvars >>
  /\ UNCHANGED << gv, opts, index, calls, probes, lisCalls,
                  skipReads >>

Next ==
  \/ \E i \in Indexes, p \in Parts, fwd \in BOOLEAN : Enter(i, p, fwd)
  \/ Stats
  \/ PassStart
  \/ WindowSkip
  \/ WindowProbe
  \/ CheckScoreNext
  \/ CheckScoreLast
  \/ PassAdvance
  \/ Post

Spec == Init /\ [][Next]_vars

\* ===================================================================== harness
\* paralleltraversal(), lines 385-439.  ThreadPool, ReadsQueue, Reader, Writer
\* and Processor are declared in headers whose code is elsewhere; they follow
\* the specification (sections 4.6 and 5).

\* the parts of each index file (index.num_index_parts) the runs are made with
IndexPartCounts == { <<1>>, <<2>>, <<1, 1>> }

ReadIds == (0 .. MaxReaders - 1) \X (1 .. NumReads)
\* the length of the n-th record of the reads file
ReadLenOf(id) == id[2] + 1

JobId(k, i, it) == [kind |-> k, i |-> i, iter |-> it]
NoRead == [id |-> <<0, 0>>, iter |-> 0, len |-> 0, last |-> <<0, 0>>, alignments |-> {}]
\* the locals of parallelTraversalJob: pass_n, windowshift, numwin, whether
\* read.id_win_hits holds a seed hit, and the offsets set in read_index_hits
NoSearch == [pass_n |-> 0, windowshift |-> 0, numwin |-> 0, hits |-> FALSE, probed |-> {}]
NewJob(jid) == [kind |-> jid.kind, i |-> jid.i, iter |-> jid.iter,
                pc |-> "run", n |-> 0, rd |-> NoRead, srch |-> NoSearch]
IdOf(j) == JobId(j.kind, j.i, j.iter)

\* line 391
numThreads == 2 * opts.num_fread_threads + opts.num_proc_threads
\* line 397: the producers read_queue is constructed to expect
readQueuePushers == 1
\* line 398: the producers write_queue is constructed to expect
writeQueuePushers == opts.num_proc_threads

\* ReadsQueue: bounded FIFO that knows its expected number of producers
NewQueue(numPushers) == [recs |-> << >>, numPushers |-> numPushers, finalized |-> 0]
QueueFull(q) == Len(q.recs) >= QUEUE_SIZE_MAX
QueueEnd(q) == q.recs = << >> /\ q.finalized >= q.numPushers
QueuePush(q, r) == [q EXCEPT !.recs = Append(@, r)]
QueuePop(q) == [q EXCEPT !.recs = Tail(@)]
QueueFinalize(q) == [q EXCEPT !.finalized = @ + 1]

\* the iterations of lines 408-434, in order
RECURSIVE IterationsFrom(_, _, _)
IterationsFrom(nip, x, p) ==
  IF x >= Len(nip) THEN << >>
  ELSE IF p >= nip[x + 1] THEN IterationsFrom(nip, x + 1, 0)
  ELSE << <<x, p>> >> \o IterationsFrom(nip, x, p + 1)
Iterations == IterationsFrom(opts.num_index_parts, 0, 0)
\* the (index_num, idx_part) of the iteration whose jobs carry loopCount k
PartOfIter(k) == Iterations[k + 1]

\* lnwin of the index files of the runs: the reads of the reads file are as
\* long as a window of index 0 or longer, and shorter than a window of index 1
HarnessLnwin == [i \in 0 .. 1 |-> IF i = 0 THEN ReadLenOf(<< 0, 1 >>)
                                           ELSE ReadLenOf(<< 0, NumReads >>) + 1]

\* skiplengths of the index files of the runs
HarnessSkip == << 2, 1, 1 >>

\* the references of the runs: whether the windows of a read hit a reference
\* of an index part; the first record of a reads file hits nothing in the
\* second part of an index
SeedHit(id, part) == ~(id[2] = 1 /\ part[2] = 1)

\* the driver variables, where only the harness is run
DriverIdle ==
  /\ gv = [num_alignments_gv |-> -1, num_best_hits_gv |-> 0, min_lis_gv |-> 0,
           de_novo_otu_gv |-> FALSE]
  /\ read = NoRead
  /\ pc = "none"
  /\ windowshift = 0 /\ pass_n = 0 /\ search = FALSE
  /\ numwin = 0 /\ win_num = 0 /\ win_index = 0
  /\ read_index_hits = {}
  /\ calls = 0
  /\ exit = "none"
  /\ probes = << >>
  /\ lisCalls = << >>
  /\ skipReads = {}

HUnchanged == UNCHANGED << gv, read, pc, windowshift, pass_n, search, numwin, win_num,
                           win_index, read_index_hits, calls, exit, probes, lisCalls,
                           skipReads, fvars >>

\* lines 385-404
HInit ==
  /\ \E r \in 1 .. MaxReaders, p \in 1 .. MaxProcs, nip \in IndexPartCounts :
       /\ r + p + Len(IterationsFrom(nip, 0, 0)) <= MaxPipeline
       /\ opts = [num_fread_threads |-> r, num_proc_threads |-> p, num_index_parts |-> nip,
                  skiplengths |-> [i \in 0 .. 1 |-> HarnessSkip]]
  /\ mainPc = "load"
  /\ mloop = [index_num |-> 0, idx_part |-> 0, i |-> 0, loopCount |-> 0]
  /\ tpool = [jobs |-> << >>, running |-> {}, finished |-> {}]
  /\ readQueue = NewQueue(readQueuePushers)
  /\ writeQueue = NewQueue(writeQueuePushers)
  /\ kvdb = [id \in ReadIds |-> [last |-> <<0, 0>>, alignments |-> {}]]
  /\ readstats = NewReadstats
  /\ index = [index_num |-> 0, part |-> 0, loading |-> FALSE, lnwin |-> HarnessLnwin]
  /\ hist = [pushed |-> {}, processed |-> {}, lens |-> {}]
  /\ logCount = 0
  /\ DriverIdle
  /\ FormatIdle

\* ---------------------------------------------------------------- main thread

\* line 415: index.load(index_num, idx_part) starts
LoadBegin ==
  /\ mainPc = "load"
  /\ index' = [index EXCEPT !.loading = TRUE]
  /\ mainPc' = "loading"
  /\ UNCHANGED << opts, readstats, mloop, tpool, readQueue, writeQueue, kvdb, hist, logCount >>
  /\ HUnchanged

\* lines 415-419: index.load and refs.load have returned
LoadEnd ==
  /\ mainPc = "loading"
  /\ index' = [index EXCEPT !.index_num = mloop.index_num, !.part = mloop.idx_part,
                             !.loading = FALSE]
  /\ mainPc' = "addReader"
  /\ mloop' = [mloop EXCEPT !.i = 0]
  /\ UNCHANGED << opts, readstats, tpool, readQueue, writeQueue, kvdb, hist, logCount >>
  /\ HUnchanged

\* line 423: tpool.addJob(Reader ...) of one turn of the loop of lines 421-425
AddReader ==
  /\ mainPc = "addReader"
  /\ tpool' = [tpool EXCEPT !.jobs = Append(@, JobId("reader", mloop.i, mloop.loopCount))]
  /\ mainPc' = "addWriter"
  /\ UNCHANGED << opts, index, readstats, mloop, readQueue, writeQueue, kvdb, hist,
                  logCount >>
  /\ HUnchanged

\* line 424: tpool.addJob(Writer ...), then the next turn of the loop, if any
AddWriter ==
  /\ mainPc = "addWriter"
  /\ tpool' = [tpool EXCEPT !.jobs = Append(@, JobId("writer", mloop.i, mloop.loopCount))]
  /\ IF mloop.i + 1 < opts.num_fread_threads
       THEN mloop' = [mloop EXCEPT !.i = @ + 1] /\ mainPc' = "addReader"
       ELSE mloop' = [mloop EXCEPT !.i = 0] /\ mainPc' = "addProc"
  /\ UNCHANGED << opts, index, readstats, readQueue, writeQueue, kvdb, hist, logCount >>
  /\ HUnchanged

\* lines 408-411, 432-434: ++loopCount and the next (index_num, idx_part), if any
LoopAdvance(m) ==
  IF m.idx_part + 1 < opts.num_index_parts[m.index_num + 1]
    THEN [m EXCEPT !.idx_part = @ + 1, !.i = 0, !.loopCount = @ + 1]
    ELSE [m EXCEPT !.index_num = @ + 1, !.idx_part = 0, !.i = 0, !.loopCount = @ + 1]

\* lines 427-434: one turn of the loop adding a Processor; after the last one
\* the main thread goes on to the next part, or to waitAll (line 436)
AfterJobsAdded(m) ==
  IF LoopAdvance(m).index_num < Len(opts.num_index_parts) THEN "load" ELSE "waitAll"

AddProcessor ==
  /\ mainPc = "addProc"
  /\ tpool' = [tpool EXCEPT !.jobs = Append(@, JobId("proc", mloop.i, mloop.loopCount))]
  /\ IF mloop.i + 1 < opts.num_proc_threads
       THEN mloop' = [mloop EXCEPT !.i = @ + 1] /\ mainPc' = "addProc"
       ELSE mloop' = LoopAdvance(mloop) /\ mainPc' = AfterJobsAdded(mloop)
  /\ UNCHANGED << opts, index, readstats, readQueue, writeQueue, kvdb, hist, logCount >>
  /\ HUnchanged

\* line 436: tpool.waitAll() returns once no job is waiting or running
WaitAll ==
  /\ mainPc = "waitAll"
  /\ tpool.jobs = << >>
  /\ tpool.running = {}
  /\ mainPc' = "writeLog"
  /\ UNCHANGED << opts, index, readstats, mloop, tpool, readQueue, writeQueue, kvdb,
                  hist, logCount >>
  /\ HUnchanged

\* line 438
WriteLog ==
  /\ mainPc = "writeLog"
  /\ logCount' = logCount + 1
  /\ mainPc' = "done"
  /\ UNCHANGED << opts, index, readstats, mloop, tpool, readQueue, writeQueue, kvdb, hist >>
  /\ HUnchanged

\* ---------------------------------------------------------------- pool threads

Become(j, nj) == tpool' = [tpool EXCEPT !.running = (@ \ {j}) \cup {nj}]
Finish(j) == tpool' = [tpool EXCEPT !.running = @ \ {j}, !.finished = @ \cup {IdOf(j)}]

\* ThreadPool: an idle thread takes the oldest waiting job
StartJob ==
  /\ tpool.jobs # << >>
  /\ Cardinality(tpool.running) < numThreads
  /\ tpool' = [tpool EXCEPT !.jobs = Tail(@), !.running = @ \cup {NewJob(Head(tpool.jobs))}]
  /\ UNCHANGED << opts, index, readstats, mainPc, mloop, readQueue, writeQueue, kvdb,
                  hist, logCount >>
  /\ HUnchanged

\* Reader: the next record, with the state the store holds for it, is pushed;
\* the push waits while the queue is full
ReaderPush(j) ==
  /\ j.kind = "reader"
  /\ j.n < NumReads
  /\ ~QueueFull(readQueue)
  /\ LET id == << j.i, j.n + 1 >>
         rd == [id |-> id, iter |-> j.iter, len |-> ReadLenOf(id),
                last |-> kvdb[id].last, alignments |-> kvdb[id].alignments]
     IN /\ readQueue' = QueuePush(readQueue, rd)
        /\ hist' = [hist EXCEPT !.pushed = @ \cup { << id, j.iter >> }]
  /\ Become(j, [j EXCEPT !.n = @ + 1])
  /\ UNCHANGED << opts, index, readstats, mainPc, mloop, writeQueue, kvdb, logCount >>
  /\ HUnchanged

\* Reader: end of the reads file, the Reader finalizes as a producer
ReaderDone(j) ==
  /\ j.kind = "reader"
  /\ j.n >= NumReads
  /\ readQueue' = QueueFinalize(readQueue)
  /\ Finish(j)
  /\ UNCHANGED << opts, index, readstats, mainPc, mloop, writeQueue, kvdb, hist, logCount >>
  /\ HUnchanged

\* Processor: pop a read
ProcPop(j) ==
  /\ j.kind = "proc"
  /\ j.pc = "run"
  /\ readQueue.recs # << >>
  /\ readQueue' = QueuePop(readQueue)
  /\ Become(j, [j EXCEPT !.pc = "enter", !.rd = Head(readQueue.recs)])
  /\ UNCHANGED << opts, index, readstats, mainPc, mloop, writeQueue, kvdb, hist, logCount >>
  /\ HUnchanged

\* Processor: the pop returns end-of-stream, the Processor finalizes write_queue
ProcDone(j) ==
  /\ j.kind = "proc"
  /\ j.pc = "run"
  /\ QueueEnd(readQueue)
  /\ writeQueue' = QueueFinalize(writeQueue)
  /\ Finish(j)
  /\ UNCHANGED << opts, index, readstats, mainPc, mloop, readQueue, kvdb, hist, logCount >>
  /\ HUnchanged

\* what a Processor reads from the shared Index: while index.load runs on the
\* main thread the read races with the load and yields the old or the new part
IndexSeen ==
  IF index.loading
    THEN { << index.index_num, index.part >>, << mloop.index_num, mloop.idx_part >> }
    ELSE { << index.index_num, index.part >> }

\* the fields of the read the rules of lines 155-167 look at; the harness
\* keeps no counts for a read, they are those of a read not aligned yet
CountsOf(rd) == [num_alignments |-> gv.num_alignments_gv, max_SW_score |-> 0]

\* lines 149-167: the stamp of lines 151-152 with the index part the shared
\* Index shows at that moment, then the early return on the reverse strand
\* (with num_alignments_gv and num_best_hits_gv of these runs its rules
\* never hold)
ProcEnter(j) ==
  /\ j.kind = "proc"
  /\ j.pc = "enter"
  /\ \E seen \in IndexSeen, fwd \in BOOLEAN :
       /\ Become(j, [j EXCEPT !.pc = IF EarlyTermination(CountsOf(j.rd), fwd, gv)
                                       THEN "push" ELSE "cmpmin",
                              !.rd = [j.rd EXCEPT !.last = seen]])
       /\ hist' = [hist EXCEPT !.processed = @ \cup { << j.rd.id, j.rd.iter, seen >> }]
  /\ UNCHANGED << opts, index, readstats, mainPc, mloop, readQueue, writeQueue, kvdb,
                  logCount >>
  /\ HUnchanged

\* lines 179-196: the length check, on the lnwin of the index the shared Index
\* shows at that moment, then the locals of the search
ProcLenCheck(j) ==
  /\ j.kind = "proc"
  /\ j.pc = "lencheck"
  /\ \E seen \in IndexSeen :
       IF TooShort(j.rd.len, index.lnwin[seen[1]])
         THEN Become(j, [j EXCEPT !.pc = "push"])
         ELSE Become(j, [j EXCEPT !.pc = "pass",
                                  !.srch = [NoSearch EXCEPT
                                     !.windowshift = SkipAt(opts.skiplengths[seen[1]], 0, 0)]])
  /\ UNCHANGED << opts, index, readstats, mainPc, mloop, readQueue, writeQueue, kvdb,
                  hist, logCount >>
  /\ HUnchanged

\* lines 211-213 in unsigned arithmetic: the difference wraps when the read
\* plus the stride is shorter than the window
NumWinWraps(len, lnw, ws) == len + ws < lnw

\* lines 209-217: the head of a pass, with the lnwin of the index the shared
\* Index shows now.  A wrapped numwin sends the window loop past the end of
\* the read (line 244): the job does not return.  With numwin = 0 the loop of
\* line 217 is not entered and line 209 is reached again with search true.
ProcPassStart(j) ==
  /\ j.kind = "proc"
  /\ j.pc = "pass"
  /\ \E seen \in IndexSeen :
       LET lnw == index.lnwin[seen[1]]
           ws == j.srch.windowshift
       IN IF NumWinWraps(j.rd.len, lnw, ws)
            THEN Become(j, [j EXCEPT !.pc = "fault"])
            ELSE IF NumWin(j.rd.len, lnw, ws) = 0
                   THEN Become(j, j)
                   ELSE Become(j, [j EXCEPT !.pc = "windows",
                                            !.srch.numwin = NumWin(j.rd.len, lnw, ws)])
  /\ UNCHANGED << opts, index, readstats, mainPc, mloop, readQueue, writeQueue, kvdb,
                  hist, logCount >>
  /\ HUnchanged

\* the offsets the window loop of a pass visits (lines 215-217, 366)
WindowOffsets(sr) == { k * sr.windowshift : k \in 0 .. sr.numwin - 1 }

\* lines 217-335: the window loop of a pass.  The windows not searched before
\* are looked up in the index the shared Index shows now; a window of that
\* index that ends past the read is read out of range (lines 232-244,
\* 284-295): the job faults, or goes on with whatever it read.
ProcWindows(j) ==
  /\ j.kind = "proc"
  /\ j.pc = "windows"
  /\ \E seen \in IndexSeen :
       LET fresh == { w \in WindowOffsets(j.srch) : ~AlreadySearched(j.srch.probed, w) }
           done(h) == [j EXCEPT !.pc = "chainer",
                                !.srch.hits = h,
                                !.srch.probed = @ \cup WindowOffsets(j.srch)]
       IN IF \E w \in fresh : w + index.lnwin[seen[1]] > j.rd.len
            THEN \/ Become(j, [j EXCEPT !.pc = "fault"])
                 \/ \E h \in {j.srch.hits, TRUE} : Become(j, done(h))
            ELSE Become(j, done(j.srch.hits \/ (fresh # {} /\ SeedHit(j.rd.id, seen))))
  /\ UNCHANGED << opts, index, readstats, mainPc, mloop, readQueue, writeQueue, kvdb,
                  hist, logCount >>
  /\ HUnchanged

\* lines 339-369: the chainer at the last window, which accepts an alignment
\* on the index part the shared Index shows now when the read holds a seed
\* hit and leaves search true (no limit is configured in these runs), then
\* the next pass, if any
ProcChainer(j) ==
  /\ j.kind = "proc"
  /\ j.pc = "chainer"
  /\ \E seen \in IndexSeen, oob \in OobValues :
       LET np == NextPass(TRUE, j.srch.pass_n, j.srch.windowshift,
                          opts.skiplengths[seen[1]], oob)
           rd == [j.rd EXCEPT !.alignments = IF j.srch.hits THEN @ \cup {seen} ELSE @]
       IN IF np.search
            THEN Become(j, [j EXCEPT !.pc = "pass", !.rd = rd,
                                     !.srch.pass_n = np.pass_n,
                                     !.srch.windowshift = np.windowshift])
            ELSE Become(j, [j EXCEPT !.pc = "push", !.rd = rd, !.srch = NoSearch])
  /\ UNCHANGED << opts, index, readstats, mainPc, mloop, readQueue, writeQueue, kvdb,
                  hist, logCount >>
  /\ HUnchanged

\* line 172: the test
ProcCmpMin(j) ==
  /\ j.kind = "proc"
  /\ j.pc = "cmpmin"
  /\ Become(j, [j EXCEPT !.pc = IF j.rd.len < readstats.min_read_len
                                  THEN "wrmin" ELSE "cmpmax"])
  /\ hist' = [hist EXCEPT !.lens = @ \cup {j.rd.len}]
  /\ UNCHANGED << opts, index, readstats, mainPc, mloop, readQueue, writeQueue, kvdb,
                  logCount >>
  /\ HUnchanged

\* line 173: the store
ProcWrMin(j) ==
  /\ j.kind = "proc"
  /\ j.pc = "wrmin"
  /\ readstats' = [readstats EXCEPT !.min_read_len = j.rd.len]
  /\ Become(j, [j EXCEPT !.pc = "cmpmax"])
  /\ UNCHANGED << opts, index, mainPc, mloop, readQueue, writeQueue, kvdb, hist, logCount >>
  /\ HUnchanged

\* line 175: the test
ProcCmpMax(j) ==
  /\ j.kind = "proc"
  /\ j.pc = "cmpmax"
  /\ Become(j, [j EXCEPT !.pc = IF j.rd.len > readstats.max_read_len
                                  THEN "wrmax" ELSE "lencheck"])
  /\ UNCHANGED << opts, index, readstats, mainPc, mloop, readQueue, writeQueue, kvdb,
                  hist, logCount >>
  /\ HUnchanged

\* line 176: the store
ProcWrMax(j) ==
  /\ j.kind = "proc"
  /\ j.pc = "wrmax"
  /\ readstats' = [readstats EXCEPT !.max_read_len = j.rd.len]
  /\ Become(j, [j EXCEPT !.pc = "lencheck"])
  /\ UNCHANGED << opts, index, mainPc, mloop, readQueue, writeQueue, kvdb, hist, logCount >>
  /\ HUnchanged

\* Processor: the read goes to write_queue; the push waits while it is full
ProcPush(j) ==
  /\ j.kind = "proc"
  /\ j.pc = "push"
  /\ ~QueueFull(writeQueue)
  /\ writeQueue' = QueuePush(writeQueue, j.rd)
  /\ Become(j, [j EXCEPT !.pc = "run", !.rd = NoRead])
  /\ UNCHANGED << opts, index, readstats, mainPc, mloop, readQueue, kvdb, hist, logCount >>
  /\ HUnchanged

\* Writer: pop a read and store its state under its ordinal
WriterPop(j) ==
  /\ j.kind = "writer"
  /\ writeQueue.recs # << >>
  /\ writeQueue' = QueuePop(writeQueue)
  /\ LET rd == Head(writeQueue.recs)
     IN kvdb' = [kvdb EXCEPT ![rd.id] = [last |-> rd.last, alignments |-> rd.alignments]]
  /\ UNCHANGED << opts, index, readstats, mainPc, mloop, tpool, readQueue, hist, logCount >>
  /\ HUnchanged

\* Writer: the pop returns end-of-stream
WriterDone(j) ==
  /\ j.kind = "writer"
  /\ QueueEnd(writeQueue)
  /\ Finish(j)
  /\ UNCHANGED << opts, index, readstats, mainPc, mloop, readQueue, writeQueue, kvdb,
                  hist, logCount >>
  /\ HUnchanged

HNext ==
  \/ LoadBegin
  \/ LoadEnd
  \/ AddReader
  \/ AddWriter
  \/ AddProcessor
  \/ WaitAll
  \/ WriteLog
  \/ StartJob
  \/ \E j \in tpool.running : ReaderPush(j)
  \/ \E j \in tpool.running : ReaderDone(j)
  \/ \E j \in tpool.running : ProcPop(j)
  \/ \E j \in tpool.running : ProcDone(j)
  \/ \E j \in tpool.running : ProcEnter(j)
  \/ \E j \in tpool.running : ProcCmpMin(j)
  \/ \E j \in tpool.running : ProcWrMin(j)
  \/ \E j \in tpool.running : ProcCmpMax(j)
  \/ \E j \in tpool.running : ProcWrMax(j)
  \/ \E j \in tpool.running : ProcLenCheck(j)
  \/ \E j \in tpool.running : ProcPassStart(j)
  \/ \E j \in tpool.running : ProcWindows(j)
  \/ \E j \in tpool.running : ProcChainer(j)
  \/ \E j \in tpool.running : ProcPush(j)
  \/ \E j \in tpool.running : WriterPop(j)
  \/ \E j \in tpool.running : WriterDone(j)

HarnessSpec == HInit /\ [][HNext]_vars

\* ============================================================= read formatting
\* format_forward(), lines 91-109.  A byte is its ASCII code.

\* '\n', '\r', '\0' and '>' of lines 96-106
LF == 10
CR == 13
NUL == 0
GT == 62

\* the bytes of a sequence line: A C G T U a g N
SeqBytes == {65, 67, 71, 84, 85, 97, 103, 78}
\* filesig: '>' (FASTA) or '@' (FASTQ)
FileSigs == {62, 64}

\* nt_table (declared elsewhere): A -> 0, C -> 1, G -> 2, T/U -> 3 in either
\* case, any other byte -> 4
nt_table(c) ==
  IF c \in {65, 97} THEN 0
  ELSE IF c \in {67, 99} THEN 1
  ELSE IF c \in {71, 103} THEN 2
  ELSE IF c \in {84, 116, 85, 117} THEN 3
  ELSE 4

\* line 98: the test that guards the write of a FASTA byte
FastaByteWritten(c) == c # LF \/ c # CR

\* lines 96-100: the FASTA loop from position i on, then the end marker
RECURSIVE FastaForward(_, _)
FastaForward(buf, i) ==
  IF i > Len(buf) \/ buf[i] = NUL \/ buf[i] = GT THEN << LF >>
  ELSE (IF FastaByteWritten(buf[i]) THEN << nt_table(buf[i]) >> ELSE << >>)
         \o FastaForward(buf, i + 1)

\* lines 106-107: the FASTQ loop from position i on, then the end marker
RECURSIVE FastqForward(_, _)
FastqForward(buf, i) ==
  IF i > Len(buf) \/ buf[i] = LF \/ buf[i] = CR THEN << LF >>
  ELSE << nt_table(buf[i]) >> \o FastqForward(buf, i + 1)

\* lines 91-109: what format_forward has written through myread
format_forward(buf, sig) ==
  IF sig = GT THEN FastaForward(buf, 1) ELSE FastqForward(buf, 1)

\* rc_table, lines 117-126: the code of the complement of A C G T U in either
\* case, 4 for every other byte below 128
rc_table(c) ==
  IF c \in {65, 97} THEN 3
  ELSE IF c \in {67, 99} THEN 2
  ELSE IF c \in {71, 103} THEN 1
  ELSE IF c \in {84, 116, 85, 117} THEN 0
  ELSE 4

\* line 133: the test that guards the write of a FASTA byte in format_rev
FastaRevByteWritten(c) == c # LF /\ c # CR

\* lines 131-137: the FASTA loop with end_read at position j and start_read
\* at position s <= j, the unguarded write of the byte at start_read, then
\* the end marker
RECURSIVE FastaRev(_, _, _)
FastaRev(buf, s, j) ==
  IF j = s THEN << rc_table(buf[j]), LF >>
  ELSE (IF FastaRevByteWritten(buf[j]) THEN << rc_table(buf[j]) >> ELSE << >>)
         \o FastaRev(buf, s, j - 1)

\* lines 142-143: the FASTQ loop with end_read at position j, then the end
\* marker; the byte before position 1 is the end of line of the header line
RECURSIVE FastqRev(_, _)
FastqRev(buf, j) ==
  IF j < 1 \/ buf[j] = LF \/ buf[j] = CR THEN << LF >>
  ELSE << rc_table(buf[j]) >> \o FastqRev(buf, j - 1)

\* lines 115-145: what format_rev has written through myread, with start_read
\* at position s and end_read at position e of buf
format_rev(buf, s, e, sig) ==
  IF sig = GT THEN FastaRev(buf, s, e) ELSE FastqRev(buf, e)

\* all sequences over S of length at most n
SeqsUpTo(S, n) == UNION { [1 .. k -> S] : k \in 0 .. n }

\* a FASTA read is its sequence lines, up to the next '>' or the final '\0';
\* a FASTQ read is one sequence line, up to its end of line
FInit ==
  /\ filesig \in FileSigs
  /\ \/ /\ filesig = GT
        /\ \E body \in SeqsUpTo(SeqBytes \cup {LF, CR}, MaxSeqLen), t \in {NUL, GT} :
             read_seq = Append(body, t)
     \/ /\ filesig # GT
        /\ \E body \in SeqsUpTo(SeqBytes, MaxSeqLen), t \in {LF, CR} :
             read_seq = Append(body, t)
  /\ myread = << >>
  /\ fpc = "in"
  /\ myread_rc = << >>
  /\ rpc = "in"
  /\ HarnessIdle
  /\ DriverIdle
  /\ opts = << >> /\ index = << >> /\ readstats = << >>

\* format_forward(read_seq, myread, filesig)
FormatForward ==
  /\ fpc = "in"
  /\ myread' = format_forward(read_seq, filesig)
  /\ fpc' = "forward"
  /\ UNCHANGED << filesig, read_seq, myread_rc, rpc, dvars, hvars >>

\* format_rev(start_read, end_read, myread, filesig): start_read is the first
\* byte of the sequence and end_read the last byte before the terminator; a
\* FASTA read has at least one byte between them
FormatRev ==
  /\ rpc = "in"
  /\ filesig = GT => Len(read_seq) > 1
  /\ myread_rc' = format_rev(read_seq, 1, Len(read_seq) - 1, filesig)
  /\ rpc' = "rev"
  /\ UNCHANGED << filesig, read_seq, myread, fpc, dvars, hvars >>

FNext == FormatForward \/ FormatRev

FormatSpec == FInit /\ [][FNext]_vars

\* ====================================================================== claims
\* ---------------------------------------------------------------- driver (Spec)

InPassLoop == pc \in {"pass", "window", "check_score", "advance"}
Returned == pc = "idle" /\ exit # "none"

\* C2 as stated: whenever the driver has returned on a read shorter than lnwin
\* of the current index, read.isValid is false and read.alignments is empty,
\* on either strand, in every configuration and after any earlier invocations.
C2_ShortReadInvalidEmpty ==
  (Returned /\ read.len < Lnwin) => (~read.isValid /\ read.alignments = << >>)

\* C2, amended: an invocation on a read shorter than lnwin that is not ended
\* by the reverse-strand early return ends at the length check: it returns
\* with read.isValid false, has probed no window and has not run the chainer;
\* the step of the length check leaves read.alignments as it found them.
C2_ShortReadStops ==
  /\ []((pc # "stats" /\ exit # "early" /\ calls > 0 /\ read.len < Lnwin)
          => (Returned /\ exit = "short" /\ ~read.isValid
                /\ probes = << >> /\ lisCalls = << >>))
  /\ [][(pc = "stats" /\ read.len < Lnwin)
          => (pc' = "idle" /\ exit' = "short" /\ ~read'.isValid
                /\ read'.alignments = read.alignments)]_vars

\* C2 witness: a reverse-strand invocation returned at the length check on a
\* read that holds an alignment of an earlier invocation
C2_ShortAfterAlignment ==
  /\ Returned /\ exit = "short" /\ read.len < Lnwin
  /\ ~opts.forward /\ ~read.isValid /\ read.alignments # << >>

\* C3: every window probed in this invocation lies inside the read
\* (win_index + lnwin <= read length), in every pass and for every stride,
\* and every seed hit appended to read.id_win_hits carries such a win_index.
C3_WindowsInsideRead ==
  /\ [](\A k \in 1 .. Len(probes) : probes[k][2] + Lnwin <= read.len)
  /\ [][\A k \in Len(read.id_win_hits) + 1 .. Len(read'.id_win_hits) :
          read'.id_win_hits[k].win + Lnwin <= read.len]_vars

\* C3 witness: a seed hit was recorded for the last window that fits, at a
\* positive offset ending exactly at the end of the read, in a later pass
C3_HitAtLastWindow ==
  /\ pc = "check_score" /\ pass_n > 0 /\ win_index > 0
  /\ win_index + Lnwin = read.len
  /\ probes # << >> /\ probes[Len(probes)] = << pass_n, win_index >>
  /\ read.id_win_hits # << >>
  /\ read.id_win_hits[Len(read.id_win_hits)].win = win_index

\* C9 as stated: on a reverse-strand invocation with num_alignments configured
\* > 0, entered with read.num_alignments counted down to zero (the chainer has
\* not run yet in this invocation, so the count is that of the entry), the
\* driver does not enter the pass loop and probes no window.
C9_ZeroCountSkipsSearch ==
  (calls > 0 /\ ~opts.forward /\ gv.num_alignments_gv > 0
     /\ read.num_alignments = 0 /\ lisCalls = << >>)
  => (~InPassLoop /\ probes = << >>)

\* C9 witness: that invocation has probed a window
C9_ProbedAtZero ==
  /\ ~opts.forward /\ gv.num_alignments_gv > 0
  /\ read.num_alignments = 0 /\ lisCalls = << >> /\ probes # << >>

\* C10: when the chainer has cleared the search flag at the end of a pass the
\* driver leaves the pass loop: the stride and the pass number stay, no
\* window is probed and the chainer is not run again before the driver
\* returns through the code after the loop.
C10_DoneEndsSearch ==
  /\ [][(pc = "advance" /\ ~search)
          => (pc' = "pass" /\ ~search' /\ pass_n' = pass_n
                /\ windowshift' = windowshift
                /\ probes' = probes /\ lisCalls' = lisCalls)]_vars
  /\ [][(pc = "pass" /\ ~search)
          => (pc' = "idle" /\ exit' = "done"
                /\ probes' = probes /\ lisCalls' = lisCalls)]_vars

\* C10 witness: with num_alignments = 1 the search ended in pass 0, where the
\* alignment was accepted, although a finer stride was left to try
C10_HaltedAtFirstPass ==
  /\ pc = "pass" /\ ~search /\ pass_n = 0 /\ Skip[1] > Skip[2]
  /\ gv.num_alignments_gv = 1 /\ read.num_alignments = 0
  /\ Len(read.alignments) = 1 /\ Len(lisCalls) = 1

\* the offsets probed so far in this invocation
ProbedOffsets == { probes[k][2] : k \in 1 .. Len(probes) }
\* the offsets at which a window fits
FittingOffsets == 0 .. read.len - Lnwin

\* C11: pass escalation. Every probe of pass p is at a multiple of the stride
\* of pass p; when a pass is over (the chainer has run) every fitting offset
\* that is a multiple of its stride has been probed, in this pass or in an
\* earlier one; no offset is probed twice, so an offset is probed in the
\* earliest executed pass whose stride divides it; and after a pass of
\* stride 1 every fitting offset has been probed exactly once.
C11_PassEscalation ==
  /\ \A k \in 1 .. Len(probes) :
       /\ probes[k][2] % Skip[probes[k][1] + 1] = 0
       /\ \A l \in 1 .. Len(probes) : probes[l][2] = probes[k][2] => l = k
  /\ pc = "advance"
       => /\ \A w \in FittingOffsets : w % windowshift = 0 => w \in ProbedOffsets
          /\ windowshift = 1
               => ProbedOffsets = FittingOffsets /\ Len(probes) = read.len - Lnwin + 1

\* C11 witness: with strides 4, 2, 1 offset 2 was not probed in pass 0, was
\* probed in pass 1, and offset 1 in pass 2; the last pass is over
C11_EscalatedProbes ==
  /\ pc = "advance" /\ pass_n = 2 /\ Skip = << 4, 2, 1 >>
  /\ probes = << << 0, 0 >>, << 1, 2 >>, << 2, 1 >> >>

\* C12 as stated, for the one read of the driver's run: the counter
\* total_reads_denovo_clustering counts the read at most once over all
\* invocations, and whenever the driver has returned it has counted the read
\* only if read.hit_denovo is true.
C12_DenovoCountedOnce ==
  /\ readstats.total_reads_denovo_clustering <= 1
  /\ (Returned /\ readstats.total_reads_denovo_clustering > 0) => read.hit_denovo

\* C12 witness: the one read has been counted twice
C12_CountedTwice ==
  /\ Returned /\ calls = 2 /\ readstats.total_reads_denovo_clustering = 2

\* the strides from pass p on are all equal: no later pass is available
LastAvailablePass(p) == \A q \in p .. 2 : Skip[q + 1] = Skip[p + 1]

\* C13: the pass schedule. Inside a pass the pass number is one of 0, 1, 2 and
\* the stride is skiplengths[index_num][pass_n]; the passes executed before it
\* have smaller numbers, so at most three passes are executed; the window
\* counter stays below numwin and the driver can always take a step, so the
\* pass loop ends; a next pass has a greater number and another stride than
\* the pass just executed; and the loop ends after a pass only if the chainer
\* cleared the search flag or no later pass with another stride is left.
C13_PassSchedule ==
  /\ []((pc \in {"window", "check_score", "advance"} \/ (pc = "pass" /\ search))
          => /\ pass_n \in 0 .. 2
             /\ windowshift = Skip[pass_n + 1]
             /\ Len(lisCalls) <= pass_n + (IF pc = "advance" THEN 1 ELSE 0)
             /\ Len(lisCalls) <= 3)
  /\ [](pc \in {"window", "check_score"}
          => win_num < numwin /\ win_index = win_num * windowshift)
  /\ [](pc # "idle" => ENABLED Next)
  /\ [][(pc = "advance" /\ search')
          => (pass_n' > pass_n /\ pass_n' <= 2
                /\ windowshift' = Skip[pass_n' + 1] /\ windowshift' # windowshift)]_vars
  /\ [][(pc = "advance" /\ ~search')
          => (~search \/ LastAvailablePass(pass_n))]_vars

\* C13 witness: with strides 2, 2, 1 pass 1 was skipped: pass 2 starts after
\* one executed pass
C13_SkippedEqualStride ==
  /\ pc = "pass" /\ search /\ pass_n = 2 /\ Skip = << 2, 2, 1 >>
  /\ Len(lisCalls) = 1 /\ windowshift = 1

\* C14: within one invocation no offset is probed twice, the bitset
\* read_index_hits holds exactly the offsets probed, and a window whose offset
\* was probed before is passed over: the step changes nothing of the read (no
\* hit appended, readhit not incremented) and is no probe.
C14_ProbedAtMostOnce ==
  /\ [](\A k, l \in 1 .. Len(probes) : probes[k][2] = probes[l][2] => k = l)
  /\ [](InPassLoop => read_index_hits = ProbedOffsets)
  /\ [][(pc = "window" /\ win_index \in ProbedOffsets)
          => (read' = read /\ probes' = probes /\ pc' = "check_score")]_vars
  /\ [][(pc = "window" /\ win_index \notin ProbedOffsets)
          => (probes' = Append(probes, << pass_n, win_index >>)
                /\ read'.readhit <= read.readhit + 1)]_vars

\* C14 witness: in a later pass the window at an offset probed in an earlier
\* pass has been passed over
C14_SkippedInLaterPass ==
  /\ pc = "check_score" /\ pass_n > 0 /\ win_index > 0
  /\ \E k \in 1 .. Len(probes) : probes[k][2] = win_index /\ probes[k][1] < pass_n

\* C15: the chainer runs exactly once per executed pass, after the windows of
\* the pass. Inside a pass the windows before the current one have been probed
\* or passed over; the chainer is called only at the last window, when all
\* numwin windows of the pass are done; a pass is left only through that call;
\* and the call is made whether the last window was probed or passed over.
C15_ChainerOncePerPass ==
  /\ [](pc \in {"window", "check_score"}
          => \A k \in 0 .. win_num - 1 : k * windowshift \in ProbedOffsets)
  /\ [][(lisCalls' # lisCalls /\ pc # "idle")
          => (pc = "check_score" /\ win_num = numwin - 1 /\ pc' = "advance"
                /\ numwin = (read.len - Lnwin + windowshift) \div windowshift
                /\ lisCalls' = Append(lisCalls, numwin)
                /\ \A k \in 0 .. numwin - 1 : k * windowshift \in ProbedOffsets)]_vars
  /\ [][(pc \in {"window", "check_score"} /\ pc' \notin {"window", "check_score"})
          => (pc' = "advance" /\ Len(lisCalls') = Len(lisCalls) + 1)]_vars
  /\ [][(pc = "advance") => (lisCalls' = lisCalls /\ pc' = "pass")]_vars

\* C15 witness: the chainer has run at the end of a later pass whose last
\* window was passed over, its offset having been probed in an earlier pass
C15_ChainerAfterSkippedLastWindow ==
  /\ pc = "advance" /\ pass_n > 0 /\ win_index > 0 /\ win_num = numwin - 1
  /\ Len(lisCalls) >= 2
  /\ \E k \in 1 .. Len(probes) : probes[k][2] = win_index /\ probes[k][1] < pass_n

\* C16 as stated: after a reverse-strand invocation that went through the pass
\* loop and in which the read never hit, read.hit_denovo is false, whatever
\* the other options are.
C16_NoHitClearsDenovo ==
  (Returned /\ exit = "done" /\ ~opts.forward /\ ~read.hit) => ~read.hit_denovo

\* C16, amended: the return from the pass loop clears read.hit_denovo exactly
\* when the read never hit, the strand is the reverse one, num_alignments_gv
\* is greater than -1 and de_novo_otu_gv is set; otherwise it leaves it as it
\* is; and no step of the driver changes hit_denovo from false to true.
C16_DenovoFlip ==
  /\ []((Returned /\ exit = "done" /\ ~opts.forward /\ ~read.hit
            /\ gv.num_alignments_gv > -1 /\ gv.de_novo_otu_gv) => ~read.hit_denovo)
  /\ [][(pc = "pass" /\ ~search)
          => (read'.hit_denovo
                = (read.hit_denovo
                     /\ ~(~read.hit /\ ~opts.forward /\ gv.num_alignments_gv > -1
                            /\ gv.de_novo_otu_gv)))]_vars
  /\ [][~read.hit_denovo => ~read'.hit_denovo]_vars

\* C16 witness: the first invocation, on the reverse strand, found no hit and
\* has cleared hit_denovo on return
C16_FlippedOff ==
  /\ Returned /\ exit = "done" /\ calls = 1 /\ ~opts.forward /\ ~read.hit
  /\ gv.num_alignments_gv > -1 /\ gv.de_novo_otu_gv /\ ~read.hit_denovo

\* the parts of the read and of the statistics a rejected read keeps
SearchFrame ==
  /\ read'.id_win_hits = read.id_win_hits
  /\ read'.readhit = read.readhit
  /\ read'.hit_denovo = read.hit_denovo
  /\ readstats'.total_reads_denovo_clustering = readstats.total_reads_denovo_clustering

\* C18: an invocation on a read shorter than lnwin of its index never enters
\* the pass loop, probes no window and does not run the chainer; its entry
\* step and its length-check step leave id_win_hits, readhit, hit_denovo and
\* total_reads_denovo_clustering as they are; the length-check step folds the
\* length of the read into min_read_len / max_read_len and rejects the read.
C18_ShortReadFrame ==
  /\ []((calls > 0 /\ read.len < Lnwin)
          => (~InPassLoop /\ probes = << >> /\ lisCalls = << >>))
  /\ []((Returned /\ exit = "short")
          => (readstats.min_read_len <= read.len /\ read.len <= readstats.max_read_len))
  /\ [][(pc = "idle" /\ calls' = calls + 1 /\ read.len < index'.lnwin[index'.index_num])
          => (SearchFrame /\ readstats' = readstats)]_vars
  /\ [][(pc = "stats" /\ read.len < Lnwin)
          => /\ SearchFrame
             /\ exit' = "short" /\ pc' = "idle"
             /\ readstats'.min_read_len
                  = (IF read.len < readstats.min_read_len
                       THEN read.len ELSE readstats.min_read_len)
             /\ readstats'.max_read_len
                  = (IF read.len > readstats.max_read_len
                       THEN read.len ELSE readstats.max_read_len)]_vars

\* C18 witness: a read was rejected as too short in its second invocation,
\* its length is the minimum seen, and the seed hits of the first invocation
\* are still on the read
C18_RejectedKeepsHits ==
  /\ Returned /\ exit = "short" /\ calls = 2 /\ read.len < Lnwin
  /\ readstats.min_read_len = read.len /\ readstats.max_read_len = read.len
  /\ read.id_win_hits # << >> /\ read.readhit > 0

\* the step that enters an invocation
EnterStep == pc = "idle" /\ calls' = calls + 1

\* C19: an invocation returns early only on the reverse strand; it then has
\* changed nothing but read.lastIndex and read.lastPart, which are the index
\* number and part of the invocation: the statistics and every other field of
\* the read are as before and no window was probed. With num_alignments
\* configured > 0 the early return is decided by read.num_alignments < 0
\* alone, whatever the best-hit rule would say; otherwise by the best-hit rule.
C19_EarlyReturnFrame ==
  /\ [][EnterStep
          => /\ read'.lastIndex = index'.index_num /\ read'.lastPart = index'.part
             /\ read' = [read EXCEPT !.lastIndex = index'.index_num,
                                      !.lastPart = index'.part]
             /\ readstats' = readstats
             /\ probes' = << >> /\ lisCalls' = << >>]_vars
  /\ [][(EnterStep /\ exit' = "early") => (pc' = "idle" /\ ~opts'.forward)]_vars
  /\ [][(EnterStep /\ ~opts'.forward /\ gv.num_alignments_gv > 0)
          => (exit' = "early" <=> read.num_alignments < 0)]_vars
  /\ [][(EnterStep /\ ~opts'.forward /\ gv.num_alignments_gv <= 0)
          => (exit' = "early"
                <=> (gv.num_best_hits_gv > 0 /\ gv.min_lis_gv > 0
                       /\ read.max_SW_score = gv.num_best_hits_gv))]_vars
  /\ []((Returned /\ exit = "early") => (probes = << >> /\ lisCalls = << >>))

\* C19 witness: the second invocation, against the other index, returned
\* early under the best-hit rule and stamped the read with that index
C19_EarlyReturnStamped ==
  /\ Returned /\ exit = "early" /\ calls = 2 /\ ~opts.forward
  /\ index.index_num = 1 /\ read.lastIndex = 1 /\ read.isValid
  /\ read.alignments # << >> /\ read.len < Lnwin

\* C19 witness of the second part is the state the driver is in when, with
\* num_alignments configured > 0 and the best-hit rule satisfied, a reverse
\* invocation has gone on to the statistics
C19_BestHitNotConsulted ==
  /\ pc = "stats" /\ ~opts.forward /\ gv.num_alignments_gv > 0
  /\ gv.num_best_hits_gv > 0 /\ gv.min_lis_gv > 0
  /\ read.max_SW_score = gv.num_best_hits_gv

\* C20 as stated: the driver reads skiplengths[index_num][i] only for i in
\* 0 .. 2, for every stride triple.
C20_StrideIndexInBounds == skipReads \subseteq 0 .. 2

\* C20 witness: with the strides 2, 1, 1 the while loop has compared
\* skiplengths[index_num][2] with skiplengths[index_num][3] after pass 1
C20_ReadPastStrides ==
  /\ pc = "pass" /\ ~search /\ Skip = << 2, 1, 1 >> /\ Len(lisCalls) = 2
  /\ skipReads = {0, 1, 2, 3}

\* ------------------------------------------------------ formatting (FormatSpec)

\* the bytes of the read before its terminator
SeqBody == SubSeq(read_seq, 1, Len(read_seq) - 1)
\* one encoded symbol per byte of b from position i on that is no end of line
RECURSIVE EncodedNoEol(_, _)
EncodedNoEol(b, i) ==
  IF i > Len(b) THEN << >>
  ELSE (IF b[i] \in {LF, CR} THEN << >> ELSE << nt_table(b[i]) >>)
         \o EncodedNoEol(b, i + 1)

\* C17 as stated: in FASTA mode format_forward writes one encoded symbol for
\* each byte before the terminator that is neither '\n' nor '\r', nothing for
\* '\n' and '\r', and then the end marker '\n'.
C17_ForwardSkipsEol ==
  (fpc = "forward" /\ filesig = GT) => myread = Append(EncodedNoEol(SeqBody, 1), LF)

\* C17 witness: a FASTA sequence on two lines was written with a symbol for
\* the end of line between them
C17_EolEncoded ==
  /\ fpc = "forward" /\ filesig = GT
  /\ read_seq = << 65, LF, 67, NUL >>
  /\ myread = << 0, 4, 1, LF >>

\* the bytes A C G T U of either case that occur in SeqBytes
Nucleotides == SeqBytes \cap {65, 67, 71, 84, 85, 97, 99, 103, 116, 117}
\* both formatting functions have run on the read
BothFormatted == fpc = "forward" /\ rpc = "rev"
\* the number of symbols written before the end marker
SymbolsFwd == Len(myread) - 1
SymbolsRev == Len(myread_rc) - 1

\* C21 as stated: for a FASTA read (on one or several lines) or a FASTQ read
\* over A C G T U in either case, format_rev writes the reverse complement of
\* what format_forward writes: both write the same number n of symbols and
\* then the end marker, and rev[i] = 3 - fwd[n-1-i]; and in a read without
\* ends of line a byte is written as 4 by one exactly where it is by the other.
C21_RevIsReverseComplement ==
  /\ (BothFormatted /\ \A k \in 1 .. Len(SeqBody) : SeqBody[k] \in Nucleotides \cup {LF, CR})
        => /\ SymbolsRev = SymbolsFwd
           /\ myread[Len(myread)] = LF /\ myread_rc[Len(myread_rc)] = LF
           /\ \A i \in 1 .. SymbolsFwd : myread_rc[i] = 3 - myread[SymbolsFwd + 1 - i]
  /\ (BothFormatted /\ \A k \in 1 .. Len(SeqBody) : SeqBody[k] \notin {LF, CR})
        => /\ SymbolsRev = SymbolsFwd
           /\ \A i \in 1 .. SymbolsFwd : myread_rc[i] = 4 <=> myread[SymbolsFwd + 1 - i] = 4

\* C21 witness: a FASTA sequence A, C on two lines was formatted both ways;
\* the forward form holds three symbols, the reverse form two
C21_LengthsDiffer ==
  /\ BothFormatted /\ filesig = GT
  /\ read_seq = << 65, LF, 67, NUL >>
  /\ myread = << 0, 4, 1, LF >>
  /\ myread_rc = << 2, 3, LF >>

\* on reads without an end of line among the bytes of the sequence the two
\* forms are reverse complements of each other, 4 standing for itself
C21_OneLineReverseComplement ==
  (BothFormatted /\ \A k \in 1 .. Len(SeqBody) : SeqBody[k] \notin {LF, CR})
    => /\ SymbolsRev = SymbolsFwd
       /\ \A i \in 1 .. SymbolsFwd :
            myread_rc[i] = (IF myread[SymbolsFwd + 1 - i] = 4 THEN 4
                            ELSE 3 - myread[SymbolsFwd + 1 - i])

\* ------------------------------------------------------- harness (HarnessSpec)

Readers == 0 .. opts.num_fread_threads - 1
Processors == 0 .. opts.num_proc_threads - 1
\* the jobs lines 421-431 add in the iteration whose loopCount is k
JobsOfIter(k) ==
  { JobId("reader", i, k) : i \in Readers } \cup { JobId("writer", i, k) : i \in Readers }
    \cup { JobId("proc", i, k) : i \in Processors }
AllJobs == UNION { JobsOfIter(k) : k \in 0 .. Len(Iterations) - 1 }
\* a Processor that is inside parallelTraversalJob
InJob(j) ==
  /\ j.kind = "proc"
  /\ j.pc \in {"enter", "cmpmin", "wrmin", "cmpmax", "wrmax", "lencheck", "pass",
               "windows", "chainer", "fault"}
\* all jobs have been added and no Processor is waiting or running
ProcessorsFinished ==
  /\ mainPc \in {"waitAll", "writeLog", "done"}
  /\ \A k \in 1 .. Len(tpool.jobs) : tpool.jobs[k].kind # "proc"
  /\ \A j \in tpool.running : j.kind # "proc"
\* a Reader job is waiting or running
ReaderPending ==
  \/ \E k \in 1 .. Len(tpool.jobs) : tpool.jobs[k].kind = "reader"
  \/ \E j \in tpool.running : j.kind = "reader"
SetMin(S) == CHOOSE x \in S : \A y \in S : x <= y
SetMax(S) == CHOOSE x \in S : \A y \in S : x >= y
\* the reads of the run, and the index parts of the run
FedReads == { id \in ReadIds : id[1] \in Readers }
AllParts == { Iterations[k] : k \in 1 .. Len(Iterations) }

\* C1 as stated: while index.load / refs.load of an iteration runs, every job
\* added for the earlier iterations has finished, and no Processor is inside
\* parallelTraversalJob.
C1_LoadAfterJobsFinished ==
  (mainPc = "loading")
  => /\ \A k \in 0 .. mloop.loopCount - 1 : JobsOfIter(k) \subseteq tpool.finished
     /\ \A j \in tpool.running : ~InJob(j)

\* C1 witness: a Processor of iteration 0 is inside parallelTraversalJob while
\* the main thread loads the index part of iteration 1
C1_ProcessorDuringLoad ==
  /\ mainPc = "loading" /\ mloop.loopCount = 1
  /\ \E j \in tpool.running : InJob(j) /\ j.iter = 0

\* C4 as stated: once every Processor has finished, readstats.min_read_len is
\* the minimum and readstats.max_read_len the maximum of the lengths of the
\* reads that reached the statistics step.
C4_StatsExact ==
  (ProcessorsFinished /\ hist.lens # {})
  => /\ readstats.min_read_len = SetMin(hist.lens)
     /\ readstats.max_read_len = SetMax(hist.lens)

\* C4 witness: two Processors are between the test and the store of
\* min_read_len at once, each with a read of another length
C4_TwoStoresPending ==
  \E j1, j2 \in tpool.running :
    /\ j1.pc = "wrmin" /\ j2.pc = "wrmin" /\ j1.rd.len < j2.rd.len

\* C5 as stated: read_queue is built to expect as many producers as Readers
\* are spawned; it is at end-of-stream only when no Reader is waiting or
\* running; and once every Processor has finished every pushed read has been
\* popped and processed.
C5_ReadQueueEndOfStream ==
  /\ readQueue.numPushers = opts.num_fread_threads
  /\ writeQueue.numPushers = opts.num_proc_threads
  /\ QueueEnd(readQueue) => ~ReaderPending
  /\ ProcessorsFinished
       => /\ readQueue.recs = << >>
          /\ \A e \in hist.pushed : \E f \in hist.processed : f[1] = e[1] /\ f[2] = e[2]

\* C5 witness: every Processor has finished on end-of-stream and a read
\* pushed after that lies in read_queue
C5_ReadLeftInQueue ==
  /\ ProcessorsFinished /\ readQueue.recs # << >>
  /\ readQueue.numPushers < opts.num_fread_threads

\* C6 as stated: the run cannot stop before writeLog has returned (no job
\* blocks forever, waitAll returns), writeLog is called at most once, and when
\* it has been called every job of the run has finished.
C6_RunCompletes ==
  /\ mainPc = "done" \/ ENABLED HNext
  /\ logCount <= 1
  /\ logCount = 1 => (AllJobs \subseteq tpool.finished /\ mainPc = "done")

\* C6 witness: a Reader waits on the full read_queue, no step is possible
C6_ReaderBlockedForever ==
  /\ ~ENABLED HNext /\ mainPc = "waitAll"
  /\ \E j \in tpool.running : j.kind = "reader" /\ j.n < NumReads
  /\ QueueFull(readQueue)

\* C7 as stated: a read pushed by a Reader of iteration k is processed with
\* the index part of iteration k (read.lastIndex, read.lastPart), and once
\* every Processor has finished every pushed read has been processed.
C7_ProcessedWithOwnPart ==
  /\ \A f \in hist.processed : f[3] = PartOfIter(f[2])
  /\ ProcessorsFinished
       => \A e \in hist.pushed : \E f \in hist.processed : f[1] = e[1] /\ f[2] = e[2]

\* C7 witness: a read fed by the Reader of iteration 0 was processed with the
\* index part of iteration 1
C7_ProcessedWithNextPart ==
  /\ Len(Iterations) = 2
  /\ \E f \in hist.processed : f[2] = 0 /\ f[3] = PartOfIter(1)

\* the alignments of a read searched once on every index part of the run
ReferenceAlignments(id) ==
  { part \in AllParts : ~TooShort(ReadLenOf(id), HarnessLnwin[part[1]]) /\ SeedHit(id, part) }

\* C8 as stated: at the end of the run the alignments stored for each read
\* are those of its search on the index parts of the run, whatever the schedule
\* and P were.
C8_AlignmentsDetermined ==
  (mainPc = "done") => \A id \in FedReads : kvdb[id].alignments = ReferenceAlignments(id)

\* C8 witness: a run with two Readers, or over two index parts, that ended
\* with the alignments of its search on every part stored for every read
C8_ReferenceRun ==
  /\ mainPc = "done"
  /\ opts.num_fread_threads = 2 \/ Len(Iterations) = 2
  /\ \A id \in FedReads : kvdb[id].alignments = ReferenceAlignments(id)
  /\ \E id \in FedReads : kvdb[id].alignments # {}

====
